---- MODULE Spec2Model ----
(***************************************************************************)
(* A model of GoFSH's caret-value-rule extraction                          *)
(* (src/src/extractor/CaretValueRuleExtractor.ts) and of the FSH exporter  *)
(* (src/src/export/FSHExporter.ts).                                        *)
(*                                                                         *)
(* Every entry point is a synchronous function of its arguments.  Init     *)
(* draws the arguments of one call from bounded sets, and one action per   *)
(* entry point applies it, leaving the returned rules, the logger's        *)
(* messages and the mutated argument state in the variables.               *)
(*                                                                         *)
(* Strings are sequences of atomic tokens, so that concatenation, split    *)
(* and slice are computed and not assumed: "a.b" is <<"a", ".", "b">>.     *)
(***************************************************************************)
EXTENDS Integers, Sequences, FiniteSets, TLC

VARIABLES
  op,              \* the entry point whose arguments were drawn
  input,           \* the arguments of the call
  pc,              \* "ready" before the call, "done" after it
  rules,           \* the returned ExportableCaretValueRule[]
  log,             \* what the logger received, in order
  resolved,        \* the leaves getFSHValue was called for, in order (history)
  processedPaths,  \* input.processedPaths of the element (process only)
  files,           \* the Map<string, Exportable[]> the grouping of export returned
  writtenFiles,    \* the Map<string, string> export returns, index.txt apart
  index            \* the rows of index.txt

vars == <<op, input, pc, rules, log, resolved, processedPaths, files, writtenFiles, index>>

\* what the extractor leaves alone, and what the exporter leaves alone
exportVars == <<files, writtenFiles, index>>
extractVars == <<rules, resolved, processedPaths>>

(***************************************************************************)
(* Bounds of the drawn arguments.                                          *)
(***************************************************************************)
MaxDiffItems == 2   \* constraint entries of a differential element
MaxSnapItems == 3   \* constraint entries of a snapshot element
MaxArrayItems == 2  \* items of a top-level array of a resource

(***************************************************************************)
(* JSON values.  One record shape for every kind, so that values of        *)
(* different kinds can sit in one collection: t is the kind ("s" scalar,   *)
(* "a" array, "o" object, "u" undefined).                                  *)
(***************************************************************************)
S(str) == [t |-> "s", s |-> str, a |-> <<>>, o |-> <<>>]
A(items) == [t |-> "a", s |-> <<>>, a |-> items, o |-> <<>>]
O(fields) == [t |-> "o", s |-> <<>>, a |-> <<>>, o |-> fields]
Undefined == [t |-> "u", s |-> <<>>, a |-> <<>>, o |-> <<>>]

BSeq(X, n) == UNION {[1..k -> X] : k \in 0..n}

Min(X) == CHOOSE x \in X : \A y \in X : x <= y

Keys(obj) == {obj.o[k][1] : k \in 1..Len(obj.o)}

\* obj[name] of JavaScript: the property's value, or undefined
Get(obj, name) ==
  IF obj.t = "o" /\ name \in Keys(obj)
  THEN LET k == CHOOSE k \in 1..Len(obj.o) : obj.o[k][1] = name IN obj.o[k][2]
  ELSE Undefined

\* delete obj[name]
Delete(obj, name) == O(SelectSeq(obj.o, LAMBDA f : f[1] # name))

\* lodash isEqual: deep equality; arrays in order, objects by key whatever the order
RECURSIVE isEqual(_, _)
isEqual(x, y) ==
  /\ x.t = y.t
  /\ CASE x.t = "s" -> x.s = y.s
       [] x.t = "a" -> /\ Len(x.a) = Len(y.a)
                       /\ \A k \in 1..Len(x.a) : isEqual(x.a[k], y.a[k])
       [] x.t = "o" -> /\ Keys(x) = Keys(y)
                       /\ \A n \in Keys(x) : isEqual(Get(x, n), Get(y, n))
       [] OTHER -> TRUE

\* Array.prototype.findIndex, given the 1-based positions of the items that satisfy
\* the predicate: the 0-based index of the first of them, or -1
FindIndex(hits) == IF hits = {} THEN -1 ELSE Min(hits) - 1

\* lodash differenceWith(xs, ys, isEqual): the items of xs equal to no item of ys
differenceWith(xs, ys) ==
  SelectSeq(xs, LAMBDA x : \A k \in 1..Len(ys) : ~isEqual(x, ys[k]))

(***************************************************************************)
(* Leaf paths.  A path is a sequence of segments name or name[idx].        *)
(***************************************************************************)
Seg(name) == [name |-> name, indexed |-> FALSE, idx |-> 0]
SegIdx(name, n) == [name |-> name, indexed |-> TRUE, idx |-> n]

\* prefix with its last segment indexed by n: prop -> prop[n]
WithIndex(prefix, n) ==
  [prefix EXCEPT ![Len(prefix)] = SegIdx(prefix[Len(prefix)].name, n)]

\* getPathValuePairs: the leaves of a nested object in document order, each with
\* its path; array entries are addressed as prop[n]
RECURSIVE FlattenValue(_, _), FlattenItems(_, _, _), FlattenFields(_, _, _)
FlattenValue(prefix, v) ==
  CASE v.t = "s" -> << <<prefix, v.s>> >>
    [] v.t = "a" -> FlattenItems(prefix, v.a, 1)
    [] v.t = "o" -> FlattenFields(prefix, v.o, 1)
    [] OTHER -> <<>>
FlattenItems(prefix, items, n) ==
  IF n > Len(items) THEN <<>>
  ELSE FlattenValue(WithIndex(prefix, n - 1), items[n])
         \o FlattenItems(prefix, items, n + 1)
FlattenFields(prefix, fields, n) ==
  IF n > Len(fields) THEN <<>>
  ELSE FlattenValue(Append(prefix, Seg(fields[n][1])), fields[n][2])
         \o FlattenFields(prefix, fields, n + 1)

getPathValuePairs(obj) == FlattenFields(<<>>, obj.o, 1)

\* flat[key] on the object getPathValuePairs returns: the leaf's value, or undefined
FlatGet(flat, key) ==
  IF \E k \in 1..Len(flat) : flat[k][1] = key
  THEN S(flat[CHOOSE k \in 1..Len(flat) : flat[k][1] = key][2])
  ELSE Undefined

\* getFSHValue: the FSH literal of leaf i of the flattened entries
getFSHValue(i, flatArray) == flatArray[i][2]

\* isFSHValueEmpty: a literal with nothing in it
isFSHValueEmpty(value) == value = <<>>

(***************************************************************************)
(* The logger, and the rules returned.                                     *)
(***************************************************************************)
LogEntry(level, kind, leaf) == [level |-> level, kind |-> kind, leaf |-> leaf]

\* new ExportableCaretValueRule(path) with caretPath and value set.  leaf is the
\* flattened key the rule was built for (history, not a field of the rule).
CaretValueRule(caretPath, value, leaf) ==
  [caretPath |-> caretPath, value |-> value, fshComment |-> "",
   isCodeCaretRule |-> FALSE, pathArray |-> <<>>, leaf |-> leaf]

(***************************************************************************)
(* Strings of the element ids: split('.'), indexOf, slice, join('.').      *)
(***************************************************************************)
\* str.indexOf(tok) in tokens: the 0-based position of the first tok, or -1
IndexOf(str, tok) == FindIndex({k \in 1..Len(str) : str[k] = tok})

\* str.split('.')
RECURSIVE SplitDot(_, _, _)
SplitDot(str, n, cur) ==
  IF n > Len(str) THEN <<cur>>
  ELSE IF str[n] = "." THEN <<cur>> \o SplitDot(str, n + 1, <<>>)
  ELSE SplitDot(str, n + 1, Append(cur, str[n]))

\* parts.join('.')
RECURSIVE JoinDot(_)
JoinDot(parts) ==
  IF Len(parts) = 0 THEN <<>>
  ELSE IF Len(parts) = 1 THEN parts[1]
  ELSE parts[1] \o <<".">> \o JoinDot(Tail(parts))

\* p => { const i = p.indexOf('[x]:'); return i > -1 ? p.slice(i + 4) : p; }
StripChoice(p) ==
  LET i == IndexOf(p, "[x]:")
  IN IF i > -1 THEN SubSeq(p, i + 2, Len(p)) ELSE p

\* the alternate syntax of a snapshot id: Observation.value[x]:valueQuantity
\* becomes Observation.valueQuantity
AltSyntax(id) ==
  LET parts == SplitDot(id, 1, <<>>)
  IN JoinDot([k \in 1..Len(parts) |-> StripChoice(parts[k])])

\* the predicate of findMatchingSnapshot's find
SnapshotIdMatches(el, differentialId) ==
  LET id == Get(el, "id")
  IN IF id.t = "s" /\ id.s = differentialId THEN TRUE
     ELSE IF id.t = "s" /\ IndexOf(id.s, "[x]:") > 0
          THEN AltSyntax(id.s) = differentialId
     ELSE FALSE

\* findMatchingSnapshot: the first snapshot element that matches, or undefined
findMatchingSnapshot(differentialId, structDef) ==
  LET els == structDef.snapshot.a
      hits == {k \in 1..Len(els) : SnapshotIdMatches(els[k], differentialId)}
  IN IF structDef.snapshot.t # "a" \/ hits = {} THEN Undefined ELSE els[Min(hits)]

(***************************************************************************)
(* CaretValueRuleExtractor.process                                         *)
(***************************************************************************)
\* key.match(/name\[(\d+)]/): the position of the first segment name[n] of the
\* key, or 0 when there is none
IndexedMatch(key, name) ==
  LET hits == {k \in 1..Len(key) : key[k].name = name /\ key[k].indexed /\ key[k].idx >= 0}
  IN IF hits = {} THEN 0 ELSE Min(hits)

\* key.replace(match[0], `name[${newIndex}]`)
ReplaceIndex(key, pos, newIndex) ==
  [key EXCEPT ![pos] = SegIdx(key[pos].name, newIndex)]

\* structDef?.snapshot?.element?.length > 0
HasSnapshot(structDef) ==
  structDef.snapshot.t = "a" /\ Len(structDef.snapshot.a) > 0

\* a number that may be undefined
NoIndex == [def |-> FALSE, n |-> 0]
Index(n) == [def |-> TRUE, n |-> n]

\* a variant that keeps the differential's own index
ConstraintNewIndex_Differential(inputJSON, structDef, i) ==
  IF HasSnapshot(structDef) THEN Index(i) ELSE NoIndex

\* newIndex of the constraint branch: the index, in the matching snapshot element's
\* constraint array, of the first entry with the key of differential constraint i
ConstraintNewIndex(inputJSON, structDef, i) ==
  IF HasSnapshot(structDef)
  THEN LET diffConstraint == Get(inputJSON, "constraint").a[i + 1]
           snapElement == findMatchingSnapshot(Get(inputJSON, "id").s, structDef)
           cs == Get(snapElement, "constraint")
       IN IF cs.t # "a" THEN NoIndex
          ELSE Index(FindIndex({k \in 1..Len(cs.a) :
                 Get(cs.a[k], "key") = Get(diffConstraint, "key")}))
  ELSE NoIndex

\* newIndex of the mapping branch: the index of the first snapshot mapping that is
\* deep-equal to differential mapping i
MappingNewIndex(inputJSON, structDef, i) ==
  IF HasSnapshot(structDef)
  THEN LET diffMapping == Get(inputJSON, "mapping").a[i + 1]
           snapElement == findMatchingSnapshot(Get(inputJSON, "id").s, structDef)
           ms == Get(snapElement, "mapping")
       IN IF ms.t # "a" THEN NoIndex
          ELSE Index(FindIndex({k \in 1..Len(ms.a) : isEqual(ms.a[k], diffMapping)}))
  ELSE NoIndex

\* a variant that tests newIndex !== null, which undefined passes
IndexIsKnown_Strict(newIndex) == TRUE

\* newIndex != null
IndexIsKnown(newIndex) == newIndex.def

\* the constraint[n] (or mapping[n]) fix of one rule: the rule with its caret path
\* rewritten, or with the warning comment; and what was logged
FixIndex(rule, key, name, newIndex) ==
  LET pos == IndexedMatch(key, name)
  IN IF pos = 0 THEN [rule |-> rule, log |-> <<>>]
     ELSE IF IndexIsKnown(newIndex)
          THEN [rule |-> [rule EXCEPT !.caretPath = ReplaceIndex(key, pos, newIndex.n)],
                log |-> <<>>]
     ELSE [rule |-> [rule EXCEPT !.fshComment = name],
           log |-> <<LogEntry("warn", name, key)>>]

\* a variant that drops only the entries claimed by the other extractors
RemainingEntries_NoOwnLeaves(flatElementArray, processed) ==
  SelectSeq(flatElementArray,
            LAMBDA e : \A k \in 1..(Len(processed) - 2) : processed[k] # e[1])

\* filter(([key]) => !input.processedPaths.includes(key))
RemainingEntries(flatElementArray, processed) ==
  SelectSeq(flatElementArray,
            LAMBDA e : \A k \in 1..Len(processed) : processed[k] # e[1])

\* what a forEach over the entries leaves behind: the rules pushed, the messages
\* logged and the leaves resolved, each in order
NoOutput == [rules |-> <<>>, log |-> <<>>, resolved |-> <<>>]
Output(head, rest) ==
  [rules |-> head.rules \o rest.rules, log |-> head.log \o rest.log,
   resolved |-> head.resolved \o rest.resolved]

\* one call of the forEach callback of process, on entry i
ProcessEntry(inputJSON, structDef, remaining, i) ==
  LET key == remaining[i][1]
      value == getFSHValue(i, remaining)
      rule0 == CaretValueRule(key, value, key)
      cpos == IndexedMatch(key, "constraint")
      cfix == FixIndex(rule0, key, "constraint",
                IF cpos = 0 THEN NoIndex
                ELSE ConstraintNewIndex(inputJSON, structDef, key[cpos].idx))
      mpos == IndexedMatch(key, "mapping")
      mfix == FixIndex(cfix.rule, key, "mapping",
                IF mpos = 0 THEN NoIndex
                ELSE MappingNewIndex(inputJSON, structDef, key[mpos].idx))
  IN IF isFSHValueEmpty(value)
     THEN [rules |-> <<>>, log |-> <<LogEntry("error", "empty", key)>>, resolved |-> <<key>>]
     ELSE [rules |-> <<mfix.rule>>, log |-> cfix.log \o mfix.log, resolved |-> <<key>>]

RECURSIVE ProcessEntries(_, _, _, _)
ProcessEntries(inputJSON, structDef, remaining, i) ==
  IF i > Len(remaining) THEN NoOutput
  ELSE Output(ProcessEntry(inputJSON, structDef, remaining, i),
              ProcessEntries(inputJSON, structDef, remaining, i + 1))

IdPath == <<Seg("id")>>
PathPath == <<Seg("path")>>

\* CaretValueRuleExtractor.process(input, structDef, fisher)
process ==
  /\ pc = "ready"
  /\ op = "process"
  /\ LET inputJSON == input.element
         processed == processedPaths \o <<IdPath, PathPath>>
         flatElementArray == getPathValuePairs(inputJSON)
         remaining == RemainingEntries(flatElementArray, processed)
         out == ProcessEntries(inputJSON, input.structDef, remaining, 1)
     IN /\ processedPaths' = processed
        /\ rules' = out.rules
        /\ log' = out.log
        /\ resolved' = out.resolved
  /\ pc' = "done"
  /\ UNCHANGED <<op, input, exportVars>>

(***************************************************************************)
(* The arguments of process that Init draws.                               *)
(***************************************************************************)
DiffId == <<"Observation", ".", "valueQuantity">>
SnapIds ==
  { DiffId,
    <<"Observation", ".", "value", "[x]:", "valueQuantity">>,
    <<"Observation", ".", "code">> }

Constraint(key, human) == O(<< <<"key", S(<<key>>)>>, <<"human", S(human)>> >>)
\* ele-1, which the snapshot may hold, and c-2, which it never does and whose human
\* text is empty
DiffConstraintItems == { Constraint("ele-1", <<"h">>), Constraint("c-2", <<>>) }
SnapConstraintItems == { Constraint("base-1", <<"s">>), Constraint("ele-1", <<"s">>) }

Mapping(identity, map) == O(<< <<"identity", S(<<identity>>)>>, <<"map", S(<<map>>)>> >>)
DiffMappings == { <<>>, <<Mapping("m1", "x")>>, <<Mapping("m2", "x")>> }
\* a snapshot mapping array: with the differential's m1 (its keys in another order)
\* second, or with an m1 that maps elsewhere
SnapMappings ==
  { <<O(<< <<"map", S(<<"y">>)>>, <<"identity", S(<<"m1">>)>> >>),
      O(<< <<"map", S(<<"x">>)>>, <<"identity", S(<<"m1">>)>> >>)>>,
    <<Mapping("m1", "y")>>,
    <<>> }

Field(name, arr) == IF Len(arr) = 0 THEN <<>> ELSE << <<name, A(arr)>> >>

Elements ==
  { O(<< <<"id", S(DiffId)>>, <<"path", S(DiffId)>>, <<"short", S(<<"txt">>)>> >>
      \o Field("constraint", cs) \o Field("mapping", ms)) :
      cs \in BSeq(DiffConstraintItems, MaxDiffItems), ms \in DiffMappings }

\* a snapshot element carries a constraint array, a mapping array, or neither
SnapElements ==
  { O(<< <<"id", S(id)>> >> \o extra) :
      id \in SnapIds,
      extra \in { << <<"constraint", A(cs)>> >> : cs \in BSeq(SnapConstraintItems, MaxSnapItems) }
                \cup { << <<"mapping", A(ms)>> >> : ms \in SnapMappings }
                \cup { <<>> } }

\* an element earlier in the snapshot that matches by the alternate syntax only
Decoy ==
  O(<< <<"id", S(<<"Observation", ".", "value", "[x]:", "valueQuantity">>)>>,
       <<"constraint", A(<<Constraint("base-1", <<"s">>)>>)>> >>)

Snapshots ==
  { Undefined, A(<<>>) }
    \cup { A(<<e>>) : e \in SnapElements }
    \cup { A(<<Decoy, e>>) : e \in {s \in SnapElements : Get(s, "id") = S(DiffId)} }

\* paths the other extractors may have claimed before process runs
ClaimedBefore ==
  { <<>>,
    << <<Seg("short")>> >>,
    << <<SegIdx("constraint", 0), Seg("key")>>, <<Seg("short")>> >> }

ProcessInput(el, sn, pp) ==
  [element |-> el, structDef |-> [snapshot |-> sn], processed |-> pp]

InitProcess ==
  /\ op = "process"
  /\ \E el \in Elements, sn \in Snapshots, pp \in ClaimedBefore :
       input = ProcessInput(el, sn, pp)
  /\ processedPaths = input.processed
  /\ pc = "ready"
  /\ rules = <<>>
  /\ log = <<>>
  /\ resolved = <<>>
  /\ files = <<>>
  /\ writtenFiles = <<>>
  /\ index = <<>>

NextElement == process
SpecElement == InitProcess /\ [][NextElement]_vars

(***************************************************************************)
(* Properties of CaretValueRuleExtractor.process                           *)
(***************************************************************************)
ProcessDone == pc = "done" /\ op = "process"

\* the indices of the log entries of a level about a leaf
Logged(level, leaf) == {k \in 1..Len(log) : log[k].level = level /\ log[k].leaf = leaf}

\* a leaf path of the form name[i]...
IsIndexedLeaf(leaf, name) ==
  Len(leaf) > 0 /\ leaf[1].name = name /\ leaf[1].indexed

\* the snapshot's entry array under name of the element matching the differential
SnapEntries(name) ==
  Get(findMatchingSnapshot(Get(input.element, "id").s, input.structDef), name)

\* the differential's entry i under name
DiffEntry(name, i) == Get(input.element, name).a[i + 1]

\* the leaves process is to build rules from: unclaimed, not id or path, and with a
\* value that is not empty
ExpectedLeaves ==
  LET flat == getPathValuePairs(input.element)
      kept == SelectSeq(flat, LAMBDA e :
                /\ \A k \in 1..Len(input.processed) : input.processed[k] # e[1]
                /\ e[1] # IdPath /\ e[1] # PathPath
                /\ e[2] # <<>>)
  IN [k \in 1..Len(kept) |-> kept[k][1]]

RuleLeaves == [k \in 1..Len(rules) |-> rules[k].leaf]

\* C1: with a snapshot whose matching element holds a constraint with the key of
\* differential constraint i, the rule of a leaf constraint[i]... has caret path
\* constraint[j]..., j the snapshot index of that entry; it carries no warning
\* comment and no warning is logged for it.
C1_ConstraintIndexFromSnapshot ==
  ProcessDone =>
    \A k \in 1..Len(rules) :
      LET r == rules[k]
          cs == SnapEntries("constraint")
      IN (/\ IsIndexedLeaf(r.leaf, "constraint")
          /\ HasSnapshot(input.structDef)
          /\ cs.t = "a"
          /\ \E j \in 1..Len(cs.a) :
               Get(cs.a[j], "key") = Get(DiffEntry("constraint", r.leaf[1].idx), "key"))
         => /\ \E j \in 1..Len(cs.a) :
                 /\ Get(cs.a[j], "key") = Get(DiffEntry("constraint", r.leaf[1].idx), "key")
                 /\ \A h \in 1..(j - 1) :
                      Get(cs.a[h], "key") # Get(DiffEntry("constraint", r.leaf[1].idx), "key")
                 /\ r.caretPath = <<SegIdx("constraint", j - 1)>> \o Tail(r.leaf)
            /\ r.fshComment = ""
            /\ Logged("warn", r.leaf) = {}

\* the spec's example: differential index 0, snapshot index 2
C1_Witness ==
  /\ ProcessDone
  /\ HasSnapshot(input.structDef)
  /\ \E k \in 1..Len(rules) :
       /\ rules[k].leaf = <<SegIdx("constraint", 0), Seg("key")>>
       /\ rules[k].value = <<"ele-1">>
       /\ rules[k].caretPath = <<SegIdx("constraint", 2), Seg("key")>>
       /\ rules[k].fshComment = ""

\* C2: without a snapshot (absent, or with no element) every rule of a leaf
\* constraint[i]... keeps index i in its caret path, carries the warning comment and
\* has exactly one warning logged; the rules of all the leaves are still returned.
C2_NoSnapshotKeepsIndexAndWarns ==
  (ProcessDone /\ ~HasSnapshot(input.structDef)) =>
    /\ \A k \in 1..Len(rules) :
         IsIndexedLeaf(rules[k].leaf, "constraint") =>
           /\ rules[k].caretPath = rules[k].leaf
           /\ rules[k].fshComment = "constraint"
           /\ Cardinality(Logged("warn", rules[k].leaf)) = 1
    /\ RuleLeaves = ExpectedLeaves

C2_Witness ==
  /\ ProcessDone
  /\ input.structDef.snapshot = A(<<>>)
  /\ Len(rules) >= 3
  /\ \E k \in 1..(Len(rules) - 1) :
       /\ rules[k].leaf = <<SegIdx("constraint", 1), Seg("key")>>
       /\ rules[k].caretPath = rules[k].leaf
       /\ rules[k].fshComment = "constraint"
       /\ Cardinality(Logged("warn", rules[k].leaf)) = 1

\* C3: with a snapshot whose matching element is found but holds no entry
\* corresponding to differential entry i (no constraint with its key, no mapping
\* deep-equal to it), the rule keeps index i in its caret path, carries the warning
\* comment and a warning is logged; the caret path holds no negative index.
C3_NoCorrespondingEntryKeepsIndex ==
  (ProcessDone /\ HasSnapshot(input.structDef)
     /\ findMatchingSnapshot(Get(input.element, "id").s, input.structDef) # Undefined) =>
    \A k \in 1..Len(rules) :
      LET r == rules[k]
          cs == SnapEntries("constraint")
          ms == SnapEntries("mapping")
          missing ==
            \/ /\ IsIndexedLeaf(r.leaf, "constraint")
               /\ \A j \in 1..Len(cs.a) :
                    Get(cs.a[j], "key") # Get(DiffEntry("constraint", r.leaf[1].idx), "key")
            \/ /\ IsIndexedLeaf(r.leaf, "mapping")
               /\ \A j \in 1..Len(ms.a) :
                    ~isEqual(ms.a[j], DiffEntry("mapping", r.leaf[1].idx))
      IN /\ missing => /\ r.caretPath = r.leaf
                       /\ r.fshComment # ""
                       /\ Logged("warn", r.leaf) # {}
         /\ \A n \in 1..Len(r.caretPath) : r.caretPath[n].idx >= 0

\* C4: no rule is built for a leaf that was in the processed-path record before the
\* call, nor for the element's own id or path; every other leaf whose value is not
\* empty gets exactly one rule, in the order of the flattening.
C4_ClaimedLeavesExcluded ==
  ProcessDone =>
    /\ \A k \in 1..Len(rules) :
         /\ \A n \in 1..Len(input.processed) : input.processed[n] # rules[k].leaf
         /\ rules[k].leaf # IdPath
         /\ rules[k].leaf # PathPath
    /\ RuleLeaves = ExpectedLeaves

C4_Witness ==
  /\ ProcessDone
  /\ \E n \in 1..Len(input.processed) :
       \E e \in 1..Len(getPathValuePairs(input.element)) :
         getPathValuePairs(input.element)[e][1] = input.processed[n]
  /\ Len(rules) >= 2
  /\ Len(rules) < Len(getPathValuePairs(input.element)) - 2

(***************************************************************************)
(* CaretValueRuleExtractor.processStructureDefinition                      *)
(***************************************************************************)
\* the ignored properties of a resource type, each a sequence of names:
\* compose.include is <<"compose", "include">>
RESOURCE_IGNORED_PROPERTIES(resourceType) ==
  CASE resourceType = "ValueSet" ->
         { <<"resourceType">>, <<"id">>, <<"name">>, <<"title">>, <<"description">>,
           <<"compose", "include">>, <<"compose", "exclude">> }
    [] resourceType = "CodeSystem" ->
         { <<"resourceType">>, <<"id">>, <<"name">>, <<"title">>, <<"description">>,
           <<"concept">> }
    [] resourceType = "StructureDefinition" ->
         { <<"resourceType">>, <<"id">>, <<"name">>, <<"title">>, <<"description">>,
           <<"fhirVersion">>, <<"mapping">>, <<"baseDefinition">>, <<"derivation">>,
           <<"snapshot">>, <<"differential">> }

\* a variant in which publisher and keyword are not cleared
SD_CLEARED_PROPERTIES_Fewer ==
  { "meta", "implicitRules", "language", "text", "contained", "identifier",
    "experimental", "date", "contact", "useContext", "jurisdiction", "purpose",
    "copyright" }

\* the properties that SUSHI clears before creating a profile
SD_CLEARED_PROPERTIES ==
  { "meta", "implicitRules", "language", "text", "contained", "identifier",
    "experimental", "date", "publisher", "contact", "useContext", "jurisdiction",
    "purpose", "copyright", "keyword" }

\* names.forEach(prop => delete obj[prop])
DeleteAll(obj, names) == O(SelectSeq(obj.o, LAMBDA f : f[1] \notin names))

\* a variant that matches the url against the canonical base and the id only
isStandardURL_AnyType(resourceType, config, inputJSON) ==
  /\ Get(inputJSON, "url").t = "s"
  /\ \E ty \in {"StructureDefinition", "ValueSet", "CodeSystem"} :
       Get(inputJSON, "url").s = config.canonical \o <<"/", ty, "/">> \o Get(inputJSON, "id").s

\* isStandardURL: input.url == `${config.canonical}/${resourceType}/${input.id}`
isStandardURL(resourceType, config, inputJSON) ==
  /\ Get(inputJSON, "url").t = "s"
  /\ Get(inputJSON, "url").s
       = config.canonical \o <<"/", resourceType, "/">> \o Get(inputJSON, "id").s

\* the two copies before the arrays are looked at: the resource and its parent (the
\* resource itself, with a warning, when the parent is not found), without the
\* ignored properties, without a generated text, the parent without the cleared ones
SDCopies(inputJSON, fished) ==
  LET ignored == {p[1] : p \in RESOURCE_IGNORED_PROPERTIES("StructureDefinition")}
      sd1 == DeleteAll(inputJSON, ignored)
      parent1 == DeleteAll(IF fished = Undefined THEN inputJSON ELSE fished, ignored)
      generated == Get(Get(sd1, "text"), "status") = S(<<"generated">>)
      sd2 == IF generated THEN Delete(sd1, "text") ELSE sd1
      parent2 == IF generated THEN Delete(parent1, "text") ELSE parent1
  IN [sd |-> sd2,
      parent |-> DeleteAll(parent2, SD_CLEARED_PROPERTIES),
      log |-> IF fished = Undefined THEN <<LogEntry("warn", "parent", <<>>)>> ELSE <<>>]

\* a variant that looks for items of the parent that the resource lacks
HasNewItems_Reversed(sdValue, parentValue) ==
  IF parentValue.t = "a"
  THEN Len(differenceWith(parentValue.a, sdValue.a)) > 0
  ELSE TRUE

\* hasNewItems: an item of the resource's array is deep-equal to none of the parent's
HasNewItems(sdValue, parentValue) ==
  IF parentValue.t = "a"
  THEN Len(differenceWith(sdValue.a, parentValue.a)) > 0
  ELSE TRUE

\* a variant that treats no array as an extension array
IsExtensionArray_None(key) == FALSE

\* key === 'extension' || key === 'modifierExtension'
IsExtensionArray(key) == key = "extension" \/ key = "modifierExtension"

\* one call of the forEach callback over the keys of sd
ReconcileKey(c, key) ==
  LET v == Get(c.sd, key)
  IN IF v.t = "a" /\ Len(v.a) > 0
     THEN IF HasNewItems(v, Get(c.parent, key)) /\ IsExtensionArray(key)
          THEN [c EXCEPT !.parent = Delete(c.parent, key)]
          ELSE IF ~HasNewItems(v, Get(c.parent, key))
               THEN [c EXCEPT !.sd = Delete(c.sd, key)]
          ELSE c
     ELSE c

\* Object.keys(sd).forEach(...): the keys are those sd had when the loop began
RECURSIVE ReconcileArrays(_, _, _)
ReconcileArrays(c, keys, n) ==
  IF n > Len(keys) THEN c
  ELSE ReconcileArrays(ReconcileKey(c, keys[n]), keys, n + 1)

KeyList(obj) == [k \in 1..Len(obj.o) |-> obj.o[k][1]]

StatusPath == <<Seg("status")>>
UrlPath == <<Seg("url")>>

\* a variant without the status exception
NeedsRule_NoStatusException(key, sdValue, parentValue) ==
  parentValue = Undefined \/ ~isEqual(S(sdValue), parentValue)

\* the condition of the if inside the forEach over the flattened resource
NeedsRule(key, sdValue, parentValue) ==
  \/ parentValue = Undefined
  \/ ~isEqual(S(sdValue), parentValue)
  \/ (key = StatusPath /\ sdValue # <<"active">>)

\* one call of the callback shared by the resource entry points, from the url test
\* on: resolve the value, log an error if it is empty, push the rule otherwise
ResourceEntry(flatArray, i, resourceType, config, inputJSON) ==
  LET key == flatArray[i][1]
      value == getFSHValue(i, flatArray)
  IN IF key = UrlPath /\ isStandardURL(resourceType, config, inputJSON)
     THEN NoOutput
     ELSE IF isFSHValueEmpty(value)
          THEN [rules |-> <<>>, log |-> <<LogEntry("error", "empty", key)>>,
                resolved |-> <<key>>]
     ELSE [rules |-> <<CaretValueRule(key, value, key)>>, log |-> <<>>,
           resolved |-> <<key>>]

RECURSIVE SDEntries(_, _, _, _, _)
SDEntries(flatArray, flatParent, i, config, inputJSON) ==
  IF i > Len(flatArray) THEN NoOutput
  ELSE Output(
         IF NeedsRule(flatArray[i][1], flatArray[i][2], FlatGet(flatParent, flatArray[i][1]))
         THEN ResourceEntry(flatArray, i, "StructureDefinition", config, inputJSON)
         ELSE NoOutput,
         SDEntries(flatArray, flatParent, i + 1, config, inputJSON))

\* the two copies when flattened: after the array massage
SDReconciled(inputJSON, fished) ==
  LET c == SDCopies(inputJSON, fished)
  IN ReconcileArrays(c, KeyList(c.sd), 1)

\* CaretValueRuleExtractor.processStructureDefinition(input, fisher, config)
processStructureDefinition ==
  /\ pc = "ready"
  /\ op = "processStructureDefinition"
  /\ LET c == SDReconciled(input.resource, input.parent)
         out == SDEntries(getPathValuePairs(c.sd), getPathValuePairs(c.parent), 1,
                          input.config, input.resource)
     IN /\ rules' = out.rules
        /\ log' = c.log \o out.log
        /\ resolved' = out.resolved
  /\ pc' = "done"
  /\ UNCHANGED <<op, input, processedPaths, exportVars>>

(***************************************************************************)
(* The arguments of processStructureDefinition that Init draws: a resource *)
(* with an id and up to two more properties, in either order, and for each *)
(* of them what the parent holds, if anything.                             *)
(***************************************************************************)
Canonical == <<"https:", "/", "/", "example.org", "/", "fhir">>
ResourceId == <<"my-profile">>
UrlOf(resourceType) == Canonical \o <<"/", resourceType, "/">> \o ResourceId

Ext(url, code) == O(<< <<"url", S(<<url>>)>>, <<"valueCode", S(code)>> >>)
\* X, and Y whose code is empty
ArrayItems == { Ext("x", <<"c">>), Ext("y", <<>>) }
\* the parent's items: X with its keys in another order, Y, and Z
ParentArrayItems ==
  { O(<< <<"valueCode", S(<<"c">>)>>, <<"url", S(<<"x">>)>> >>), Ext("y", <<>>) }

Arrays(items, n) == BSeq(items, n) \ {<<>>}

Text(status) == O(<< <<"status", S(<<status>>)>>, <<"div", S(<<"div">>)>> >>)

\* the values a property of the resource may have
SDValues(name) ==
  CASE name = "extension" -> {A(a) : a \in Arrays(ArrayItems, MaxArrayItems)}
    [] name = "contextInvariant" ->
         {A(<<Ext("x", <<"c">>)>>), A(<<Ext("x", <<"c">>), Ext("y", <<>>)>>),
          A(<<Ext("y", <<>>), Ext("x", <<"c">>)>>)}
    [] name \in {"modifierExtension", "keyword", "mapping"} ->
         {A(<<Ext("x", <<"c">>)>>), A(<<Ext("x", <<"c">>), Ext("y", <<>>)>>)}
    [] name = "url" -> {S(UrlOf("StructureDefinition")), S(UrlOf("ValueSet")), S(<<>>)}
    [] name = "status" -> {S(<<"active">>), S(<<"draft">>), S(<<>>)}
    [] name = "version" -> {S(<<"1">>), S(<<>>)}
    [] name = "publisher" -> {S(<<"org">>)}
    [] name = "name" -> {S(<<"MyProfile">>)}
    [] name = "text" -> {Text("generated"), Text("additional")}

\* the values the parent may have for it, undefined when it has none
SDParentValues(name) ==
  CASE name = "extension" ->
         {Undefined} \cup {A(a) : a \in Arrays(ParentArrayItems, MaxArrayItems)}
    [] name = "contextInvariant" ->
         {Undefined} \cup {A(a) : a \in Arrays(ParentArrayItems, 2)}
    [] name \in {"modifierExtension", "keyword", "mapping"} ->
         {Undefined, A(<<Ext("x", <<"c">>)>>)}
    [] name = "url" -> {Undefined, S(<<"http:", "/", "/", "hl7.org", "/", "base">>),
                          S(UrlOf("ValueSet"))}
    [] name = "status" -> {Undefined, S(<<"active">>), S(<<"draft">>), S(<<>>)}
    [] name = "version" -> {Undefined, S(<<"1">>), S(<<>>)}
    [] name = "publisher" -> {Undefined, S(<<"org">>)}
    [] name = "name" -> {Undefined, S(<<"Base">>)}
    [] name = "text" -> {Undefined, Text("generated"), Text("additional")}

SDProperties ==
  { "extension", "contextInvariant", "modifierExtension", "keyword", "mapping",
    "url", "status", "version", "publisher", "name", "text" }

\* a property with its value in the resource and in the parent
SDSlots ==
  UNION { { [name |-> n, value |-> v, parent |-> pv] :
              v \in SDValues(n), pv \in SDParentValues(n) } : n \in SDProperties }

ObjectOf(id, slots, parentSide) ==
  O(<< <<"id", S(id)>> >>
    \o [k \in 1..Len(slots) |->
          <<slots[k].name, IF parentSide THEN slots[k].parent ELSE slots[k].value>>])

\* the parent's object: the slots it has a value for
ParentOf(slots) ==
  ObjectOf(<<"base">>, SelectSeq(slots, LAMBDA s : s.parent # Undefined), TRUE)

Config == [canonical |-> Canonical]

\* the arguments for a resource of these slots, the parent being found or not
SDInput(ss, found) ==
  [resource |-> ObjectOf(ResourceId, ss, FALSE),
   parent |-> IF found THEN ParentOf(ss) ELSE Undefined,
   config |-> Config]

\* a parent that is not found has no values
Fits(slot, found) == found \/ slot.parent = Undefined

InitSD ==
  /\ op = "processStructureDefinition"
  /\ \E found \in BOOLEAN :
       \/ input = SDInput(<<>>, found)
       \/ \E s1 \in SDSlots : Fits(s1, found) /\ input = SDInput(<<s1>>, found)
       \/ \E s1 \in SDSlots, s2 \in SDSlots :
            /\ s1.name # s2.name
            /\ Fits(s1, found) /\ Fits(s2, found)
            /\ input = SDInput(<<s1, s2>>, found)
  /\ processedPaths = <<>>
  /\ pc = "ready"
  /\ rules = <<>>
  /\ log = <<>>
  /\ resolved = <<>>
  /\ files = <<>>
  /\ writtenFiles = <<>>
  /\ index = <<>>

NextSD == processStructureDefinition
SpecSD == InitSD /\ [][NextSD]_vars

(***************************************************************************)
(* Properties of processStructureDefinition                                *)
(***************************************************************************)
SDDone == pc = "done" /\ op = "processStructureDefinition"

\* the parent copy the array properties are compared with
ParentCopy == SDCopies(input.resource, input.parent).parent

\* the leaves of the resource under top-level property name, with their values
LeavesUnder(name) ==
  SelectSeq(getPathValuePairs(input.resource), LAMBDA e : e[1][1].name = name)

RulesUnder(name) == {k \in 1..Len(rules) : rules[k].leaf[1].name = name}

\* every item of array value v is deep-equal to some item of array value pv
Covered(v, pv) ==
  \A i \in 1..Len(v.a) : \E j \in 1..Len(pv.a) : isEqual(v.a[i], pv.a[j])

\* C6: a top-level non-empty array of the resource whose every item is deep-equal
\* to some item of the parent copy's array for the same property gets no rule for
\* any leaf under it, extension and modifierExtension included.
C6_CoveredArrayHasNoRule ==
  SDDone =>
    \A name \in Keys(input.resource) :
      LET v == Get(input.resource, name)
          pv == Get(ParentCopy, name)
      IN (v.t = "a" /\ Len(v.a) > 0 /\ pv.t = "a" /\ Covered(v, pv))
         => RulesUnder(name) = {}

\* a pure subset, its item equal to the parent's second item up to key order
C6_Witness ==
  /\ SDDone
  /\ Get(input.resource, "extension") = A(<<Ext("x", <<"c">>)>>)
  /\ Get(input.parent, "extension").t = "a"
  /\ Len(Get(input.parent, "extension").a) = 2
  /\ Get(input.parent, "extension").a[1] = Ext("y", <<>>)
  /\ Get(input.resource, "version") = S(<<"1">>)
  /\ Get(input.parent, "version") = Undefined
  /\ Len(rules) = 1

\* the resource's array under name holds an item the parent's array lacks
HasItemParentLacks(name) ==
  LET v == Get(input.resource, name)
      pv == Get(ParentCopy, name)
  IN v.t = "a" /\ Len(v.a) > 0 /\ (pv.t = "a" => ~Covered(v, pv))

\* C7 as claimed: when extension (or modifierExtension) holds an item the parent's
\* array lacks, every leaf of the whole array of the resource gets a rule.
C7_EveryExtensionLeafHasRule ==
  SDDone =>
    \A name \in {"extension", "modifierExtension"} :
      HasItemParentLacks(name) =>
        \A e \in 1..Len(LeavesUnder(name)) :
          \E k \in 1..Len(rules) : rules[k].leaf = LeavesUnder(name)[e][1]

\* C7 as amended: when extension (or modifierExtension) holds an item the parent's
\* array lacks, every leaf of the whole array of the resource whose value is not
\* empty gets exactly one rule, with the leaf as caret path and its value, also the
\* leaves of the items the parent has; the leaves with an empty value get none.
C7_WholeExtensionArrayExported ==
  SDDone =>
    \A name \in {"extension", "modifierExtension"} :
      HasItemParentLacks(name) =>
        \A e \in 1..Len(LeavesUnder(name)) :
          LET leaf == LeavesUnder(name)[e][1]
              value == LeavesUnder(name)[e][2]
              built == {k \in 1..Len(rules) : rules[k].leaf = leaf}
          IN IF value = <<>> THEN built = {}
             ELSE /\ Cardinality(built) = 1
                  /\ \A k \in built : rules[k].caretPath = leaf /\ rules[k].value = value

\* [X, Y] against [X]: the rules of X, which the parent has at the same place, are
\* built too
C7_Witness ==
  /\ SDDone
  /\ Get(input.resource, "extension") = A(<<Ext("x", <<"c">>), Ext("y", <<>>)>>)
  /\ Get(input.parent, "extension").t = "a"
  /\ Len(Get(input.parent, "extension").a) = 1
  /\ isEqual(Get(input.parent, "extension").a[1], Ext("x", <<"c">>))
  /\ \E k \in 1..Len(rules) :
       /\ rules[k].leaf = <<SegIdx("extension", 0), Seg("valueCode")>>
       /\ rules[k].value = <<"c">>

\* the status the parent copy holds when the diff is made
ResourceStatus == Get(input.resource, "status")
ParentStatus ==
  Get(IF input.parent = Undefined THEN input.resource ELSE input.parent, "status")
StatusRules == {k \in 1..Len(rules) : rules[k].leaf = StatusPath}

\* C8 as claimed: a status rule is built whenever the resource's status is not
\* active, even if the parent's is the same; none when it is active like the
\* parent's.
C8_StatusRuleUnlessActive ==
  SDDone =>
    /\ (ResourceStatus.t = "s" /\ ResourceStatus # S(<<"active">>)) => StatusRules # {}
    /\ (ResourceStatus = S(<<"active">>) /\ ParentStatus = S(<<"active">>))
         => StatusRules = {}

\* C8 as amended: a status rule is built whenever the resource's status is not
\* active and not empty, even if the parent's is the same; none when it is active
\* like the parent's, and none when it is empty.
C8_StatusRuleUnlessActiveOrEmpty ==
  SDDone =>
    /\ (ResourceStatus.t = "s" /\ ResourceStatus # S(<<"active">>)
          /\ ResourceStatus # S(<<>>))
         => /\ Cardinality(StatusRules) = 1
            /\ \A k \in StatusRules : rules[k].value = ResourceStatus.s
    /\ (ResourceStatus = S(<<"active">>) /\ ParentStatus = S(<<"active">>))
         => StatusRules = {}
    /\ ResourceStatus = S(<<>>) => StatusRules = {}

\* draft against draft
C8_Witness ==
  /\ SDDone
  /\ ResourceStatus = S(<<"draft">>)
  /\ input.parent # Undefined
  /\ ParentStatus = S(<<"draft">>)
  /\ \E k \in StatusRules : rules[k].value = <<"draft">>

(***************************************************************************)
(* CaretValueRuleExtractor.processResource and processConcept              *)
(***************************************************************************)
CONCEPT_IGNORED_PROPERTIES == { <<"code">>, <<"display">>, <<"definition">>, <<"concept">> }

\* key === property
IsProperty(key, property) ==
  /\ Len(key) = Len(property)
  /\ \A k \in 1..Len(key) : key[k].name = property[k] /\ ~key[k].indexed

\* new RegExp(`${property}(\\[\\d+\\])?\\.`).test(key): the property's names, the
\* last with or without an index, followed by a dot, somewhere in the key.  The
\* names of the drawn resources end with a property's name only when they are it.
PropertyPrefixes(key, property) ==
  \E k \in 1..Len(key) :
    /\ k + Len(property) - 1 < Len(key)
    /\ \A j \in 1..Len(property) :
         /\ key[k + j - 1].name = property[j]
         /\ (j < Len(property) => ~key[k + j - 1].indexed)

\* properties.some(property => key === property || regex.test(key))
IsIgnored(key, properties) ==
  \E property \in properties :
    IsProperty(key, property) \/ PropertyPrefixes(key, property)

\* toPairs(getPathValuePairs(input)).filter(([key]) => !properties.some(...))
UnignoredEntries(inputJSON, properties) ==
  SelectSeq(getPathValuePairs(inputJSON), LAMBDA e : ~IsIgnored(e[1], properties))

\* a variant whose loop ends at the first leaf it builds no rule for
RECURSIVE ResourceEntries_StopAtEmpty(_, _, _, _, _)
ResourceEntries_StopAtEmpty(flatArray, i, resourceType, config, inputJSON) ==
  IF i > Len(flatArray) THEN NoOutput
  ELSE LET head == ResourceEntry(flatArray, i, resourceType, config, inputJSON)
       IN IF head.rules = <<>> THEN head
          ELSE Output(head,
                 ResourceEntries_StopAtEmpty(flatArray, i + 1, resourceType, config, inputJSON))

\* flatArray.forEach(([key], i) => ...) of processResource
RECURSIVE ResourceEntries(_, _, _, _, _)
ResourceEntries(flatArray, i, resourceType, config, inputJSON) ==
  IF i > Len(flatArray) THEN NoOutput
  ELSE Output(ResourceEntry(flatArray, i, resourceType, config, inputJSON),
              ResourceEntries(flatArray, i + 1, resourceType, config, inputJSON))

\* CaretValueRuleExtractor.processResource(input, fisher, resourceType, config)
processResource ==
  /\ pc = "ready"
  /\ op = "processResource"
  /\ LET flatArray == UnignoredEntries(input.resource,
                        RESOURCE_IGNORED_PROPERTIES(input.resourceType))
         out == ResourceEntries(flatArray, 1, input.resourceType, input.config,
                                input.resource)
     IN /\ rules' = out.rules
        /\ log' = out.log
        /\ resolved' = out.resolved
  /\ pc' = "done"
  /\ UNCHANGED <<op, input, processedPaths, exportVars>>

\* one call of the forEach callback of processConcept, on entry i
ConceptEntry(flatArray, i, conceptHierarchy) ==
  LET key == flatArray[i][1]
      value == getFSHValue(i, flatArray)
      rule == [CaretValueRule(key, value, key) EXCEPT
                 !.isCodeCaretRule = TRUE, !.pathArray = conceptHierarchy]
  IN IF isFSHValueEmpty(value)
     THEN [rules |-> <<>>, log |-> <<LogEntry("error", "empty", key)>>,
           resolved |-> <<key>>]
     ELSE [rules |-> <<rule>>, log |-> <<>>, resolved |-> <<key>>]

RECURSIVE ConceptEntries(_, _, _)
ConceptEntries(flatArray, i, conceptHierarchy) ==
  IF i > Len(flatArray) THEN NoOutput
  ELSE Output(ConceptEntry(flatArray, i, conceptHierarchy),
              ConceptEntries(flatArray, i + 1, conceptHierarchy))

\* CaretValueRuleExtractor.processConcept(input, conceptHierarchy, codeSystemName, fisher)
processConcept ==
  /\ pc = "ready"
  /\ op = "processConcept"
  /\ LET flatArray == UnignoredEntries(input.concept, CONCEPT_IGNORED_PROPERTIES)
         out == ConceptEntries(flatArray, 1, input.conceptHierarchy)
     IN /\ rules' = out.rules
        /\ log' = out.log
        /\ resolved' = out.resolved
  /\ pc' = "done"
  /\ UNCHANGED <<op, input, processedPaths, exportVars>>

(***************************************************************************)
(* The arguments of processResource and processConcept that Init draws.    *)
(***************************************************************************)
\* up to two properties, of different names, in either order
SlotSeqs(slots) ==
  { <<>> } \cup { <<s>> : s \in slots }
    \cup { ss \in { <<s1, s2>> : s1 \in slots, s2 \in slots } : ss[1].name # ss[2].name }

Concept(code, display) == O(<< <<"code", S(<<code>>)>>, <<"display", S(display)>> >>)

ResourceSlots ==
  { [name |-> "url", value |-> S(u)] :
      u \in {UrlOf("ValueSet"), UrlOf("CodeSystem"), <<"urn:", "other">>, <<>>} }
  \cup { [name |-> "status", value |-> S(v)] : v \in {<<"active">>, <<"draft">>, <<>>} }
  \cup { [name |-> "version", value |-> S(v)] : v \in {<<"1">>, <<>>} }
  \cup { [name |-> "name", value |-> S(<<"MyResource">>)] }
  \cup { [name |-> "contact", value |-> A(<<O(<< <<"name", S(v)>> >>)>>)] :
           v \in {<<"org">>, <<>>} }
  \cup { [name |-> "compose", value |-> O(<< <<"inactive", S(v)>>,
             <<"include", A(<<O(<< <<"system", S(<<"sys">>)>> >>)>>)>> >>)] :
           v \in {<<"true">>, <<>>} }
  \cup { [name |-> "concept", value |-> A(<<Concept("c1", <<"one">>)>>)] }

ResourceInput(ss, ty) ==
  [resource |-> ObjectOf(ResourceId, ss, FALSE), resourceType |-> ty, config |-> Config]

ConceptSlots ==
  { [name |-> "display", value |-> S(<<"one">>)],
    [name |-> "definition", value |-> S(<<"the", "first">>)],
    [name |-> "concept", value |-> A(<<Concept("c1a", <<"child">>)>>)] }
  \cup { [name |-> "designation", value |-> A(<<O(<< <<"language", S(l)>>,
             <<"value", S(v)>> >>)>>)] : l \in {<<"en">>, <<>>}, v \in {<<"uno">>, <<>>} }
  \cup { [name |-> "property", value |-> A(<<O(<< <<"code", S(<<"p">>)>>,
             <<"valueCode", S(v)>> >>)>>)] : v \in {<<"v">>, <<>>} }

\* a concept has its code, then up to two more properties
ConceptInput(ss, h) ==
  [concept |-> O(<< <<"code", S(<<"c1">>)>> >>
                   \o [k \in 1..Len(ss) |-> <<ss[k].name, ss[k].value>>]),
   conceptHierarchy |-> h]

InitResource ==
  /\ op = "processResource"
  /\ \E ss \in SlotSeqs(ResourceSlots), ty \in {"ValueSet", "CodeSystem"} :
       input = ResourceInput(ss, ty)
  /\ processedPaths = <<>>
  /\ pc = "ready"
  /\ rules = <<>>
  /\ log = <<>>
  /\ resolved = <<>>
  /\ files = <<>>
  /\ writtenFiles = <<>>
  /\ index = <<>>

InitConcept ==
  /\ op = "processConcept"
  /\ \E ss \in SlotSeqs(ConceptSlots), h \in {<<"c1">>, <<"c0", "c1">>} :
       input = ConceptInput(ss, h)
  /\ processedPaths = <<>>
  /\ pc = "ready"
  /\ rules = <<>>
  /\ log = <<>>
  /\ resolved = <<>>
  /\ files = <<>>
  /\ writtenFiles = <<>>
  /\ index = <<>>

(***************************************************************************)
(* The extractor: one call of one of its four entry points.                *)
(***************************************************************************)
InitExtractor == InitProcess \/ InitSD \/ InitResource \/ InitConcept
NextExtractor ==
  \/ process
  \/ processStructureDefinition
  \/ processResource
  \/ processConcept
SpecExtractor == InitExtractor /\ [][NextExtractor]_vars

(***************************************************************************)
(* Properties of the four entry points                                     *)
(***************************************************************************)
ExtractorDone ==
  /\ pc = "done"
  /\ op \in {"process", "processStructureDefinition", "processResource", "processConcept"}

\* the object the call flattens, and the type its url is tested against
InputObject ==
  CASE op = "process" -> input.element
    [] op = "processConcept" -> input.concept
    [] OTHER -> input.resource
InputType ==
  IF op = "processResource" THEN input.resourceType ELSE "StructureDefinition"

LeafValue(leaf) == FlatGet(getPathValuePairs(InputObject), leaf).s

\* the url is the standard one: <canonical base>/<ResourceKind>/<resource id>
UrlIsStandard ==
  /\ Get(input.resource, "url").t = "s"
  /\ Get(input.resource, "url").s
       = input.config.canonical \o <<"/">> \o <<InputType>> \o <<"/">>
           \o Get(input.resource, "id").s

\* the leaves the entry point is to resolve, in the order of the flattening: the
\* unclaimed ones, the ones not ignored, the ones that differ from the parent's;
\* never a standard url
Candidates ==
  LET flat ==
        CASE op = "process" ->
               RemainingEntries(getPathValuePairs(input.element),
                                input.processed \o <<IdPath, PathPath>>)
          [] op = "processConcept" ->
               UnignoredEntries(input.concept, CONCEPT_IGNORED_PROPERTIES)
          [] op = "processResource" ->
               SelectSeq(UnignoredEntries(input.resource,
                           RESOURCE_IGNORED_PROPERTIES(input.resourceType)),
                         LAMBDA e : ~(e[1] = UrlPath /\ UrlIsStandard))
          [] OTHER ->
               LET c == SDReconciled(input.resource, input.parent)
               IN SelectSeq(getPathValuePairs(c.sd), LAMBDA e :
                    /\ NeedsRule(e[1], e[2], FlatGet(getPathValuePairs(c.parent), e[1]))
                    /\ ~(e[1] = UrlPath /\ UrlIsStandard))
  IN [k \in 1..Len(flat) |-> flat[k][1]]

ErrorLeaves ==
  LET errors == SelectSeq(log, LAMBDA l : l.level = "error")
  IN [k \in 1..Len(errors) |-> errors[k].leaf]

\* C5: at each of the four entry points every returned rule has a value that is
\* not empty; a leaf whose resolved value is empty gets no rule and exactly one
\* logged error, and the leaves after it still get their rules.
C5_EmptyValuesSkippedWithError ==
  ExtractorDone =>
    /\ \A k \in 1..Len(rules) : rules[k].value # <<>>
    /\ RuleLeaves = SelectSeq(Candidates, LAMBDA leaf : LeafValue(leaf) # <<>>)
    /\ ErrorLeaves = SelectSeq(Candidates, LAMBDA leaf : LeafValue(leaf) = <<>>)
    /\ \A k \in 1..Len(rules) : rules[k].value = LeafValue(rules[k].leaf)

\* an empty leaf with an error and no rule, and a rule for a leaf after it
C5_Witness ==
  /\ pc = "done"
  /\ op = "processResource"
  /\ \E i \in 1..Len(Candidates) : \E j \in (i + 1)..Len(Candidates) :
       /\ LeafValue(Candidates[i]) = <<>>
       /\ Cardinality(Logged("error", Candidates[i])) = 1
       /\ \A k \in 1..Len(rules) : rules[k].leaf # Candidates[i]
       /\ \E k \in 1..Len(rules) : rules[k].leaf = Candidates[j]

ResourceDone ==
  pc = "done" /\ op \in {"processStructureDefinition", "processResource"}

UrlRules == {k \in 1..Len(rules) : rules[k].leaf = UrlPath}
ResourceUrl == Get(input.resource, "url")

\* C9 as claimed: no url rule when the url is the standard one; a url rule for any
\* other url, whatever the outcome of the parent's resolution.  Read for the urls
\* that are not empty: an empty value gets no rule anywhere.
C9_UrlRuleUnlessStandard ==
  ResourceDone =>
    /\ UrlIsStandard => UrlRules = {}
    /\ (ResourceUrl.t = "s" /\ ResourceUrl.s # <<>> /\ ~UrlIsStandard) => UrlRules # {}

\* the parent as processStructureDefinition sees it holds the url of the resource
ParentHasSameUrl ==
  /\ op = "processStructureDefinition"
  /\ \/ input.parent = Undefined
     \/ Get(input.parent, "url") = ResourceUrl

\* C9 as amended: no url rule when the url is the standard one.  For any other url
\* that is not empty, processResource builds one url rule; so does
\* processStructureDefinition when the parent is resolved and its url is another or
\* absent.  It builds none when the parent is not resolved (the resource is then
\* its own parent) or has the same url, and none is built for an empty url.
C9_UrlRuleUnlessStandardOrInherited ==
  ResourceDone =>
    /\ UrlIsStandard => UrlRules = {}
    /\ (ResourceUrl.t = "s" /\ ~UrlIsStandard /\ ResourceUrl.s # <<>> /\ ~ParentHasSameUrl)
         => /\ Cardinality(UrlRules) = 1
            /\ \A k \in UrlRules : rules[k].value = ResourceUrl.s
    /\ (ParentHasSameUrl \/ ResourceUrl = S(<<>>)) => UrlRules = {}

\* a url that is standard for a ValueSet, in a StructureDefinition
C9_Witness ==
  /\ pc = "done"
  /\ op = "processStructureDefinition"
  /\ input.parent # Undefined
  /\ ResourceUrl = S(UrlOf("ValueSet"))
  /\ \E k \in UrlRules : rules[k].value = UrlOf("ValueSet")

(***************************************************************************)
(* FSHExporter.  An exportable is a record: kind is its class without the  *)
(* Exportable prefix, rules are its rules (of the classes that have any).  *)
(* A Map is the sequence of its entries in insertion order.                *)
(***************************************************************************)
Exportable(kind, name, usage, instanceOf, exportableRules) ==
  [kind |-> kind, name |-> name, usage |-> usage, instanceOf |-> instanceOf,
   rules |-> exportableRules]

\* a rule of an exportable: type is its class
Rule(type, isInstance, value, keys) ==
  [type |-> type, isInstance |-> isInstance, value |-> value, keys |-> keys]

MapHas(map, file) == \E k \in 1..Len(map) : map[k].file = file

MapGet(map, file) ==
  map[CHOOSE k \in 1..Len(map) : map[k].file = file].exportables

\* map.set(file, exportables): a known key keeps its place
MapSet(map, file, exportables) ==
  IF MapHas(map, file)
  THEN [k \in 1..Len(map) |->
          IF map[k].file = file THEN [file |-> file, exportables |-> exportables]
          ELSE map[k]]
  ELSE Append(map, [file |-> file, exportables |-> exportables])

\* map.get(file).push(exportable)
MapPush(map, file, exportable) ==
  [k \in 1..Len(map) |->
     IF map[k].file = file
     THEN [map[k] EXCEPT !.exportables = Append(map[k].exportables, exportable)]
     ELSE map[k]]

RECURSIVE Flat(_)
Flat(seqs) == IF Len(seqs) = 0 THEN <<>> ELSE Head(seqs) \o Flat(Tail(seqs))

\* `${name}${suffix}`
FileName(name, suffix) == name \o <<suffix>>

\* files.set(`${e.name}${suffix}`, [e]) for each e of exportables, in order
RECURSIVE SetFilePerExportable(_, _, _)
SetFilePerExportable(map, exportables, suffix) ==
  IF Len(exportables) = 0 THEN map
  ELSE SetFilePerExportable(
         MapSet(map, FileName(Head(exportables).name, suffix), <<Head(exportables)>>),
         Tail(exportables), suffix)

\* groupAsSingleFile
groupAsSingleFile(pkg) ==
  << [file |-> <<"resources", ".fsh">>,
      exportables |-> pkg.aliases \o pkg.profiles \o pkg.extensions \o pkg.codeSystems
                        \o pkg.valueSets \o pkg.instances \o pkg.invariants
                        \o pkg.mappings] >>

\* groupAsFilePerDefinition
groupAsFilePerDefinition(pkg) ==
  LET f0 == MapSet(<<>>, <<"aliases", ".fsh">>, pkg.aliases)
      f1 == SetFilePerExportable(f0, pkg.invariants, "-Invariant.fsh")
      f2 == SetFilePerExportable(f1, pkg.mappings, "-Mapping.fsh")
      f3 == SetFilePerExportable(f2, pkg.profiles, "-Profile.fsh")
      f4 == SetFilePerExportable(f3, pkg.extensions, "-Extension.fsh")
      f5 == SetFilePerExportable(f4, pkg.codeSystems, "-CodeSystem.fsh")
      f6 == SetFilePerExportable(f5, pkg.valueSets, "-ValueSet.fsh")
  IN SetFilePerExportable(f6, pkg.instances, "-Instance.fsh")

\* groupByFSHType
groupByFSHType(pkg) ==
  LET f0 == MapSet(<<>>, <<"aliases", ".fsh">>, pkg.aliases)
      f1 == MapSet(f0, <<"profiles", ".fsh">>, pkg.profiles)
      f2 == MapSet(f1, <<"extensions", ".fsh">>, pkg.extensions)
      f3 == MapSet(f2, <<"valueSets", ".fsh">>, pkg.valueSets)
      f4 == MapSet(f3, <<"codeSystems", ".fsh">>, pkg.codeSystems)
      f5 == MapSet(f4, <<"instances", ".fsh">>, pkg.instances)
      f6 == MapSet(f5, <<"invariants", ".fsh">>, pkg.invariants)
  IN MapSet(f6, <<"mappings", ".fsh">>, pkg.mappings)

\* the test of a rule inside inlineInstanceUsedIn
ReferencesInstance(rule, inlineInstance) ==
  /\ rule.type \in {"ExportableAssignmentRule", "ExportableCaretValueRule"}
  /\ rule.isInstance
  /\ rule.value = inlineInstance.name

\* inlineInstanceUsedIn: the file of every rule, of an instance, profile or
\* extension of files, that references the inline instance; once per rule
inlineInstanceUsedIn(inlineInstance, map) ==
  Flat([f \in 1..Len(map) |->
    Flat([e \in 1..Len(map[f].exportables) |->
      LET resource == map[f].exportables[e]
      IN IF resource.kind \in {"Instance", "Profile", "Extension"}
         THEN Flat([r \in 1..Len(resource.rules) |->
                IF ReferencesInstance(resource.rules[r], inlineInstance)
                THEN <<map[f].file>> ELSE <<>>])
         ELSE <<>>])])

\* rule.keys.includes(name)
Includes(keys, name) == \E k \in 1..Len(keys) : keys[k] = name

\* invariantUsedIn: the file of every obeys rule, of a profile of files, whose keys
\* include the invariant's name; once per rule
invariantUsedIn(invariant, map) ==
  Flat([f \in 1..Len(map) |->
    Flat([e \in 1..Len(map[f].exportables) |->
      LET profile == map[f].exportables[e]
      IN IF profile.kind = "Profile"
         THEN Flat([r \in 1..Len(profile.rules) |->
                IF /\ profile.rules[r].type = "ExportableObeysRule"
                   /\ Includes(profile.rules[r].keys, invariant.name)
                THEN <<map[f].file>> ELSE <<>>])
         ELSE <<>>])])

\* nonInlineInstances.forEach(...)
RECURSIVE PlaceNonInlineInstances(_, _)
PlaceNonInlineInstances(map, instances) ==
  IF Len(instances) = 0 THEN map
  ELSE LET instance == Head(instances)
           file == FileName(instance.instanceOf, ".fsh")
       IN PlaceNonInlineInstances(
            IF instance.usage = "Example" /\ MapHas(map, file)
            THEN MapPush(map, file, instance)
            ELSE MapPush(map, <<"instances", ".fsh">>, instance),
            Tail(instances))

\* inlineInstances.forEach(...)
RECURSIVE PlaceInlineInstances(_, _)
PlaceInlineInstances(map, instances) ==
  IF Len(instances) = 0 THEN map
  ELSE LET instance == Head(instances)
           usedIn == inlineInstanceUsedIn(instance, map)
       IN PlaceInlineInstances(
            IF Len(usedIn) = 1
            THEN MapPush(map, usedIn[1], instance)
            ELSE MapPush(map, <<"instances", ".fsh">>, instance),
            Tail(instances))

\* this.fshPackage.invariants.forEach(...)
RECURSIVE PlaceInvariants(_, _)
PlaceInvariants(map, invariants) ==
  IF Len(invariants) = 0 THEN map
  ELSE LET invariant == Head(invariants)
           usedIn == invariantUsedIn(invariant, map)
       IN PlaceInvariants(
            IF Len(usedIn) = 1
            THEN MapPush(map, usedIn[1], invariant)
            ELSE MapPush(map, <<"invariants", ".fsh">>, invariant),
            Tail(invariants))

\* the partition of the instances in groupByProfile
inlineInstancesOf(pkg) == SelectSeq(pkg.instances, LAMBDA i : i.usage = "Inline")
nonInlineInstancesOf(pkg) == SelectSeq(pkg.instances, LAMBDA i : i.usage # "Inline")

\* groupByProfile up to the placing of the inline instances: a file per profile,
\* instances.fsh, and the instances that are not inline
FilesBeforeInline(pkg) ==
  LET f0 == SetFilePerExportable(<<>>, pkg.profiles, ".fsh")
      f1 == MapSet(f0, <<"instances", ".fsh">>, <<>>)
  IN PlaceNonInlineInstances(f1, nonInlineInstancesOf(pkg))

\* groupByProfile up to the placing of the invariants: the instances are placed and
\* invariants.fsh is set
FilesBeforeInvariants(pkg) ==
  MapSet(PlaceInlineInstances(FilesBeforeInline(pkg), inlineInstancesOf(pkg)),
         <<"invariants", ".fsh">>, <<>>)

\* groupByProfile
groupByProfile(pkg) ==
  LET f5 == PlaceInvariants(FilesBeforeInvariants(pkg), pkg.invariants)
      f6 == MapSet(f5, <<"aliases", ".fsh">>, pkg.aliases)
      f7 == MapSet(f6, <<"extensions", ".fsh">>, pkg.extensions)
      f8 == MapSet(f7, <<"valueSets", ".fsh">>, pkg.valueSets)
      f9 == MapSet(f8, <<"codeSystems", ".fsh">>, pkg.codeSystems)
  IN MapSet(f9, <<"mappings", ".fsh">>, pkg.mappings)

\* the switch of export
GroupFiles(pkg, style) ==
  CASE style = S(<<"single-file">>) -> groupAsSingleFile(pkg)
    [] style = S(<<"group-by-fsh-type">>) -> groupByFSHType(pkg)
    [] style = S(<<"group-by-profile">>) -> groupByProfile(pkg)
    [] style = S(<<"file-per-definition">>) -> groupAsFilePerDefinition(pkg)
    [] OTHER -> groupByFSHType(pkg)

KnownStyles ==
  { S(<<"single-file">>), S(<<"group-by-fsh-type">>), S(<<"group-by-profile">>),
    S(<<"file-per-definition">>) }

\* the messages of export: the warning of an unrecognized style, then the counts
ExportLog(pkg, style) ==
  (IF style \notin KnownStyles /\ style # Undefined
   THEN <<LogEntry("warn", "style", <<>>)>> ELSE <<>>)
  \o [k \in 1..7 |-> LogEntry("info", "exported", <<>>)]

\* the UTF-16 code units of the tokens that names are made of
CharCodes(token) ==
  CASE token = "Alpha" -> <<65, 108, 112, 104, 97>>
    [] token = "beta" -> <<98, 101, 116, 97>>
    [] token = "Ext" -> <<69, 120, 116>>
    [] token = "Example" -> <<69, 120, 97, 109, 112, 108, 101>>
    [] token = "Inline" -> <<73, 110, 108, 105, 110, 101>>
    [] token = "Second" -> <<83, 101, 99, 111, 110, 100>>
    [] token = "inv" -> <<105, 110, 118>>
    [] token = "Patient" -> <<80, 97, 116, 105, 101, 110, 116>>
    [] token = "$SCT" -> <<36, 83, 67, 84>>
    [] token = "instances" -> <<105, 110, 115, 116, 97, 110, 99, 101, 115>>
    [] token = "VS" -> <<86, 83>>
    [] token = "Map" -> <<77, 97, 112>>

Codes(name) == Flat([k \in 1..Len(name) |-> CharCodes(name[k])])

\* x > y on strings: by code unit, a proper prefix being the smaller
RECURSIVE CodesGreater(_, _)
CodesGreater(x, y) ==
  IF Len(x) = 0 THEN FALSE
  ELSE IF Len(y) = 0 THEN TRUE
  ELSE IF Head(x) # Head(y) THEN Head(x) > Head(y)
  ELSE CodesGreater(Tail(x), Tail(y))

StringGreater(x, y) == CodesGreater(Codes(x), Codes(y))

RemoveAt(seq, n) == SubSeq(seq, 1, n - 1) \o SubSeq(seq, n + 1, Len(seq))

\* index.sort((line1, line2) => (line1[0] > line2[0] ? 1 : -1)): ascending by name;
\* the comparator orders two rows of one name both ways, so their order is the
\* implementation's choice
RECURSIVE SortOutcomes(_)
SortOutcomes(rows) ==
  IF Len(rows) = 0 THEN { <<>> }
  ELSE LET least == {m \in 1..Len(rows) :
                       \A n \in 1..Len(rows) : ~StringGreater(rows[m].name, rows[n].name)}
       IN UNION { { <<rows[m]>> \o rest : rest \in SortOutcomes(RemoveAt(rows, m)) } :
                  m \in least }

\* a file's content is empty: toFSH renders every exportable to some text, so it
\* is when the file holds nothing
ContentIsEmpty(exportables) == Len(exportables) = 0

\* a variant that gives the aliases a row too
IndexRows_WithAliases(entry) ==
  [k \in 1..Len(entry.exportables) |->
     [name |-> entry.exportables[k].name, type |-> entry.exportables[k].kind,
      file |-> entry.file]]

\* the rows export adds to the index for one file
IndexRows(entry) ==
  LET named == SelectSeq(entry.exportables, LAMBDA e : e.kind # "Alias")
  IN [k \in 1..Len(named) |->
        [name |-> named[k].name, type |-> named[k].kind, file |-> entry.file]]

\* FSHExporter.export(style)
export ==
  /\ pc = "ready"
  /\ op = "export"
  /\ LET grouped == GroupFiles(input.package, input.style)
         kept == SelectSeq(grouped, LAMBDA entry : ~ContentIsEmpty(entry.exportables))
         rows == Flat([k \in 1..Len(kept) |-> IndexRows(kept[k])])
     IN /\ files' = grouped
        \* a written file is held with the exportables its text renders; the text
        \* of index.txt is the table of the rows of index
        /\ writtenFiles' = MapSet(kept, <<"index.txt">>, <<>>)
        /\ \E sorted \in SortOutcomes(rows) :
             index' = <<[name |-> <<"Name">>, type |-> "Type", file |-> <<"File">>]>>
                        \o sorted
  /\ log' = ExportLog(input.package, input.style)
  /\ pc' = "done"
  /\ UNCHANGED <<op, input, extractVars>>

(***************************************************************************)
(* The packages and styles that Init draws.                                *)
(***************************************************************************)
MaxProfiles == 2  \* profiles of a package

InlineName == <<"Inline">>

InstanceRef(type) == Rule(type, TRUE, InlineName, <<>>)
\* an assignment of the string that happens to be the instance's name
StringRule == Rule("ExportableAssignmentRule", FALSE, InlineName, <<>>)
Obeys(keys) == Rule("ExportableObeysRule", FALSE, <<>>, keys)

\* one reference to the instance and one to the invariant
OneOfEach ==
  <<StringRule, InstanceRef("ExportableAssignmentRule"), Obeys(<<<<"inv">>>>)>>

\* one of each; two references to the instance; two to the invariant
ProfileRules ==
  { OneOfEach,
    <<InstanceRef("ExportableCaretValueRule"), InstanceRef("ExportableAssignmentRule")>>,
    <<Obeys(<<<<"inv">>>>), Obeys(<<<<"other">>, <<"inv">>>>)>> }

\* the profiles a package is made of: Alpha and beta
ProfileItems ==
  { Exportable("Profile", <<"Alpha">>, "", <<"Patient">>, rs) : rs \in ProfileRules }
    \cup { Exportable("Profile", <<"beta">>, "", <<"Patient">>, OneOfEach) }

\* up to MaxProfiles of them, the same name twice included; or one profile that is
\* named like the shared group of the instances
Profiles ==
  BSeq(ProfileItems, MaxProfiles)
    \cup { <<Exportable("Profile", <<"instances">>, "", <<"Patient">>, OneOfEach)>> }

Extensions ==
  { <<>>, <<Exportable("Extension", <<"Ext">>, "", <<>>,
                        <<InstanceRef("ExportableAssignmentRule")>>)>> }

\* the instances: an inline one, with or without a second inline one that holds
\* it, and with or without an example of profile Alpha
InlineInstance == Exportable("Instance", InlineName, "Inline", <<"Patient">>, <<>>)
SecondInline ==
  Exportable("Instance", <<"Second">>, "Inline", <<"Patient">>,
             <<InstanceRef("ExportableAssignmentRule")>>)
Examples ==
  { <<>>, <<Exportable("Instance", <<"Example">>, "Example", <<"Alpha">>,
                        <<InstanceRef("ExportableAssignmentRule")>>)>> }
Instances ==
  { ex \o inl : ex \in Examples,
                inl \in { <<InlineInstance>>, <<InlineInstance, SecondInline>>,
                          <<SecondInline, InlineInstance>> } }

Invariants ==
  { <<>>, <<Exportable("Invariant", <<"inv">>, "", <<>>, <<>>)>> }

\* the rest of a package: nothing; an alias; or an alias, a code system named like
\* a profile, a value set and a mapping
Named(kind, name) == <<Exportable(kind, name, "", <<>>, <<>>)>>
Rests ==
  { [aliases |-> <<>>, codeSystems |-> <<>>, valueSets |-> <<>>, mappings |-> <<>>],
    [aliases |-> Named("Alias", <<"$SCT">>), codeSystems |-> <<>>, valueSets |-> <<>>,
     mappings |-> <<>>],
    [aliases |-> Named("Alias", <<"$SCT">>), codeSystems |-> Named("CodeSystem", <<"Alpha">>),
     valueSets |-> Named("ValueSet", <<"VS">>), mappings |-> Named("Mapping", <<"Map">>)] }

Package(rest, ps, es, is, vs) ==
  [aliases |-> rest.aliases, profiles |-> ps, extensions |-> es,
   codeSystems |-> rest.codeSystems, valueSets |-> rest.valueSets, instances |-> is,
   invariants |-> vs, mappings |-> rest.mappings]

Styles == KnownStyles \cup { S(<<"by-category">>), Undefined }

InitExport ==
  /\ op = "export"
  /\ \E rest \in Rests, ps \in Profiles, es \in Extensions, is \in Instances,
        vs \in Invariants, st \in Styles :
       input = [package |-> Package(rest, ps, es, is, vs), style |-> st]
  /\ processedPaths = <<>>
  /\ pc = "ready"
  /\ rules = <<>>
  /\ log = <<>>
  /\ resolved = <<>>
  /\ files = <<>>
  /\ writtenFiles = <<>>
  /\ index = <<>>

NextExport == export
SpecExport == InitExport /\ [][NextExport]_vars

(***************************************************************************)
(* The whole: one call of the extractor or of the exporter.                *)
(***************************************************************************)
Init == InitExtractor \/ InitExport
Next == NextExtractor \/ NextExport
Spec == Init /\ [][Next]_vars

(***************************************************************************)
(* Claims about the exporter.                                              *)
(***************************************************************************)
ExportDone == pc = "done" /\ op = "export"
ByProfile == input.style = S(<<"group-by-profile">>)

Range(seq) == { seq[k] : k \in 1..Len(seq) }

\* the groups scanned for the k-th inline instance: the profile and instance groups
\* with the inline instances placed before it
ScannedFor(pkg, k) ==
  PlaceInlineInstances(FilesBeforeInline(pkg), SubSeq(inlineInstancesOf(pkg), 1, k - 1))

\* C10: under the by-profile strategy an inline instance lies in group G exactly
\* when G is the only distinct group, of those scanned, that holds a rule referencing
\* it as an instance, however many rules of G do; referenced from no group or from
\* two or more distinct groups, it lies in the shared instances group.
C10_InlineInstanceInOnlyReferencingGroup ==
  (ExportDone /\ ByProfile) =>
    \A k \in 1..Len(inlineInstancesOf(input.package)) :
      LET instance == inlineInstancesOf(input.package)[k]
          groups == Range(inlineInstanceUsedIn(instance, ScannedFor(input.package, k)))
          target == IF Cardinality(groups) = 1 THEN CHOOSE g \in groups : TRUE
                    ELSE <<"instances", ".fsh">>
      IN \A f \in 1..Len(files) :
           (instance \in Range(files[f].exportables)) <=> (files[f].file = target)

\* the groups scanned for the k-th invariant: those of before the invariants, with
\* the invariants placed before it
ScannedForInvariant(pkg, k) ==
  PlaceInvariants(FilesBeforeInvariants(pkg), SubSeq(pkg.invariants, 1, k - 1))

\* C11: under the by-profile strategy an invariant lies in profile group G exactly
\* when G is the only distinct profile group that holds an obeys rule naming it,
\* however many obeys rules of G do; named in no profile group or in two or more
\* distinct ones, it lies in the shared invariants group.
C11_InvariantInOnlyReferencingGroup ==
  (ExportDone /\ ByProfile) =>
    \A k \in 1..Len(input.package.invariants) :
      LET invariant == input.package.invariants[k]
          groups == Range(invariantUsedIn(invariant,
                                          ScannedForInvariant(input.package, k)))
          target == IF Cardinality(groups) = 1 THEN CHOOSE g \in groups : TRUE
                    ELSE <<"invariants", ".fsh">>
      IN \A f \in 1..Len(files) :
           (invariant \in Range(files[f].exportables)) <=> (files[f].file = target)

\* the header row of the index
HeaderRow == [name |-> <<"Name">>, type |-> "Type", file |-> <<"File">>]

\* the groups that are dropped: those that hold nothing to render
DroppedGroups == {f \in 1..Len(files) : Len(files[f].exportables) = 0}

\* the named statements of the retained groups, each with its group
NamedStatements ==
  UNION { { <<f, e>> : e \in {n \in 1..Len(files[f].exportables) :
                                files[f].exportables[n].kind # "Alias"} } :
          f \in 1..Len(files) }

RowOf(fe) ==
  [name |-> files[fe[1]].exportables[fe[2]].name,
   type |-> files[fe[1]].exportables[fe[2]].kind,
   file |-> files[fe[1]].file]

\* how many rows after the header are this row
RowCount(row) == Cardinality({i \in 2..Len(index) : index[i] = row})

\* C12: after the header row the index holds exactly one row (name, category label,
\* group name) per named statement of each retained group, none for a dropped
\* group; the rows after the header ascend by name, code unit by code unit; and
\* index.txt is among the written files, with the retained groups and no other.
C12_IndexRowsPerNamedStatementSorted ==
  ExportDone =>
    /\ Len(index) >= 1 /\ index[1] = HeaderRow
    /\ Len(index) - 1 = Cardinality(NamedStatements)
    /\ \A fe \in NamedStatements :
         RowCount(RowOf(fe)) = Cardinality({g \in NamedStatements : RowOf(g) = RowOf(fe)})
    /\ \A i \in 2..Len(index) : \A f \in DroppedGroups : index[i].file # files[f].file
    /\ \A i \in 2..Len(index) : \A j \in (i + 1)..Len(index) :
         ~StringGreater(index[i].name, index[j].name)
    /\ MapHas(writtenFiles, <<"index.txt">>)
    /\ \A f \in 1..Len(files) :
         MapHas(writtenFiles, files[f].file) <=> f \notin DroppedGroups

\* beta before Alpha in the package, Alpha before beta in the index; an alias
\* without a row; a dropped group
C12_Witness ==
  /\ ExportDone
  /\ Len(input.package.profiles) = 2
  /\ input.package.profiles[1].name = <<"beta">>
  /\ input.package.profiles[2].name = <<"Alpha">>
  /\ Len(input.package.aliases) = 1
  /\ DroppedGroups # {}
  /\ index[2].name = <<"Alpha">>
  /\ \E i \in 3..Len(index) : index[i].name = <<"beta">>
  /\ \A i \in 1..Len(index) : index[i].type # "Alias"

\* the statements of the package, and those of the groups
PackageStatements ==
  LET pkg == input.package
  IN pkg.aliases \o pkg.profiles \o pkg.extensions \o pkg.codeSystems \o pkg.valueSets
       \o pkg.instances \o pkg.invariants \o pkg.mappings
GroupedStatements == Flat([f \in 1..Len(files) |-> files[f].exportables])

Occurrences(seq, x) == Cardinality({k \in 1..Len(seq) : seq[k] = x})

\* C13: under each strategy the grouping is a partition of the package: every
\* statement lies in exactly one group, as often as the package holds it, and the
\* groups hold nothing else; also when statements share a name or a profile is
\* named like a shared group.
C13_GroupingIsPartition ==
  ExportDone =>
    /\ Len(GroupedStatements) = Len(PackageStatements)
    /\ \A k \in 1..Len(PackageStatements) :
         Occurrences(GroupedStatements, PackageStatements[k])
           = Occurrences(PackageStatements, PackageStatements[k])

(***************************************************************************)
(* processStructureDefinition when the parent is not found                 *)
(***************************************************************************)
\* the properties the target compiler always clears
AlwaysCleared ==
  { "meta", "implicitRules", "language", "text", "contained", "identifier",
    "experimental", "date", "publisher", "contact", "useContext", "jurisdiction",
    "purpose", "copyright", "keyword" }

TextIsGenerated ==
  Get(Get(input.resource, "text"), "status") = S(<<"generated">>)

\* a leaf under an always cleared property (a generated text apart), or a status
\* that is not active
ClearedOrStatus(e) ==
  \/ /\ e[1][1].name \in AlwaysCleared
     /\ ~(e[1][1].name = "text" /\ TextIsGenerated)
  \/ (e[1] = StatusPath /\ e[2] # <<"active">>)

Warnings == {k \in 1..Len(log) : log[k].level = "warn"}

\* the leaves of these entries, in their order
LeavesOf(entries) == [k \in 1..Len(entries) |-> entries[k][1]]

\* C14 as claimed: when the parent is not found the call returns, one warning is
\* logged, and the rules are exactly those of the resource's leaves under the
\* always cleared properties, plus one for a status that is not active.
C14_UnresolvedParentAllClearedLeaves ==
  (SDDone /\ input.parent = Undefined) =>
         /\ Cardinality(Warnings) = 1
         /\ RuleLeaves
              = LeavesOf(SelectSeq(getPathValuePairs(input.resource), ClearedOrStatus))

\* C14 as amended: when the parent is not found the call returns, one warning is
\* logged, and the rules are exactly those of the resource's leaves whose value is
\* not empty and that lie under the always cleared properties, plus one for a
\* status that is neither active nor empty; each rule has the leaf as caret path
\* and the leaf's value.  An empty value gets an error instead.
C14_UnresolvedParentClearedLeaves ==
  (SDDone /\ input.parent = Undefined) =>
         /\ Cardinality(Warnings) = 1
         /\ RuleLeaves
              = LeavesOf(SelectSeq(getPathValuePairs(input.resource),
                                   LAMBDA e : ClearedOrStatus(e) /\ e[2] # <<>>))
         /\ \A k \in 1..Len(rules) :
              /\ rules[k].caretPath = rules[k].leaf
              /\ rules[k].value = LeafValue(rules[k].leaf)
         /\ ErrorLeaves
              = LeavesOf(SelectSeq(getPathValuePairs(input.resource),
                                   LAMBDA e : ClearedOrStatus(e) /\ e[2] = <<>>))

\* a url and a publisher without a parent: one rule, for the publisher
C14_Witness ==
  /\ SDDone
  /\ input.parent = Undefined
  /\ Get(input.resource, "url") = S(UrlOf("ValueSet"))
  /\ Get(input.resource, "publisher") = S(<<"org">>)
  /\ Cardinality(Warnings) = 1
  /\ Len(rules) = 1
  /\ rules[1].leaf = <<Seg("publisher")>>

====
